---- MODULE Spec2Model ----
(***************************************************************************)
(* Model of the process supervisor of CloudyHost (server/botManager.ts).   *)
(* One bot id is tracked.  Every async function of BotManager is a task    *)
(* whose position (pc) advances one suspension point (await) at a time;    *)
(* the synchronous code between two awaits is one atomic step, as on the   *)
(* single-threaded event loop.  addLog awaits touch only the log sink and  *)
(* are folded into the neighbouring suspension point.                      *)
(***************************************************************************)
EXTENDS Integers, FiniteSets, Sequences, TLC

\* ---- program constants (botManager.ts) ----
MAX_CONSECUTIVE_FAILURES == 3
MAX_RETRY_ATTEMPTS == 5
BASE_RETRY_DELAY == 2000
\* Math.random() * 1000: the jitter in ms lies in [0, JitterMax)
JitterMax == 1000
\* logStorage keeps the last LogCap entries of a bot
LogCap == 1000

\* ---- bounds of the model ----
MaxStarts == 2        \* startBot calls (manual + automatic) in Spec
MaxStops == 1         \* stopBot calls
MaxLoopStarts == 7    \* startBot calls in the crash-loop specification
MaxProbes == 4        \* health-check probes sent in the health specification
MaxStopProbes == 1    \* health-check probes sent in the start/stop specification
MaxBots == 3          \* records in storage at supervisor startup
MaxRaceStarts == 3    \* startBot calls in the specification of crashing bots
MaxStaleProbes == 2   \* health-check probes sent in the restart specification
MaxLines == 3         \* lines the child prints on stdout
MaxChunk == 2         \* lines in one chunk of stdout data

MaxOf(a, b) == IF a > b THEN a ELSE b
Slots == 1 .. MaxOf(MaxStarts, MaxLoopStarts)
StopSlots == 1 .. MaxStops
Probes == 1 .. MaxOf(MaxProbes, MaxStopProbes)
Lines == 1 .. MaxLines
\* a line of stdout after trim(): a plain message, nothing, a line with
\* the marker __HEALTH_CHECK_RESPONSE__: and an id, or a line with the
\* marker and no id after it
LineKinds == {"msg", "blank", "response", "malformed"}
\* the data of one 'data' event, split at the newlines
Chunks == UNION {[1 .. n -> LineKinds] : n \in 1 .. MaxChunk}
BotIds == 1 .. MaxBots

\* values of the jitter the delays are computed with: both ends of
\* [0, JitterMax), their neighbours and the middle
Jitters == {0, 1, JitterMax \div 2, JitterMax - 2, JitterMax - 1}

\* BotStatus
Statuses == {"running", "stopped", "starting", "error", "unresponsive"}

\* ---- how a child can terminate: (code, signal) of the 'exit' event ----
ExitOutcomes == {"code0", "code1", "SIGTERM", "SIGKILL"}
\* exit code of an outcome; -1 stands for null (terminated by a signal)
Code(o) == IF o = "code0" THEN 0 ELSE IF o = "code1" THEN 1 ELSE -1
\* signal of an outcome; "null" when the child exited by itself
Signal(o) == IF o \in {"SIGTERM", "SIGKILL"} THEN o ELSE "null"

VARIABLES
  status,       \* persisted status of the bot in storage
  runningBots,  \* runningBots.get(botId): child id, 0 when absent
  nStarts,      \* startBot calls made so far (call k spawns child k)
  startT,       \* startBot call k: [pc, origin, result]
  child,        \* ChildProcess k: [state, killed, exit, sigterm, sigkill]
  exitH,        \* 'exit' listener of child k: [pc, obj]
  errH,         \* 'error' listener of child k: pc
  grace,        \* the 1s "mark as running" timer of child k
  retryData,    \* retryData.get(botId): RetryInfo object id, 0 when absent
  retryObj,     \* RetryInfo object o: [attempts, handle]
  retryTimer,   \* retry timer armed by the exit listener of child k
  nStops,       \* stopBot calls made so far
  stopT,        \* stopBot call j: [pc, child, result, timer, deadline, pending]
  healthCheckData, \* healthCheckData.get(botId): HealthCheckInfo id, 0 absent
  healthObj,    \* HealthCheckInfo object h
  nProbes,      \* health-check ids generated so far
  probe,        \* probe p: [timer, child, obj]: timeout, receiver, captured info
  cycle,        \* the performHealthChecks call in flight: [pc, obj]
  failT,        \* handleHealthCheckFailure started by the timeout of probe p
  succT,        \* handleHealthCheckSuccess started by a response to probe p
  delT,         \* the deleteBot call: [pc, stop, result, trail]
  logs,         \* the log file of the bot id exists (logStorage)
  bots,         \* persisted status of the records found at supervisor startup
  recT,         \* the recoverRunningBots call: [pc, allBots, todo]
  backoff,      \* delays computed by the scheduleSmartRetry calls of a crash
                \* episode: sequence of [attempts, jitter, retryDelay]
  stdoutLines,  \* the lines the child printed so far, by kind; line l is the
                \* l-th of them
  logFile,      \* content of the log file: the lines stored, in order
  appendT,      \* logStorage.addLog call for line l: [pc, logs]
  routed,       \* lines passed to processHealthCheckResponse
  healthCheckInterval, \* the interval timer of performHealthChecks is set
  shutT,        \* the shutdown call: [pc, stop]
  updT          \* storage.updateBotStatus call on record b: [pc, status, bots]

startVars == <<nStarts, startT>>
stopVars == <<nStops, stopT>>
retryVars == <<retryData, retryObj, retryTimer>>
healthVars == <<healthCheckData, healthObj, nProbes, probe, cycle, failT, succT>>
delVars == <<delT, logs>>
recVars == <<bots, recT>>
outVars == <<stdoutLines, logFile, appendT, routed>>
shutVars == <<healthCheckInterval, shutT>>
vars == <<status, runningBots, nStarts, startT, child, exitH, errH, grace,
          retryData, retryObj, retryTimer, nStops, stopT, healthCheckData,
          healthObj, nProbes, probe, cycle, failT, succT, delT, logs,
          bots, recT, backoff, stdoutLines, logFile, appendT, routed,
          healthCheckInterval, shutT, updT>>

\* storage.updateBotStatus(id, s): no effect when the record does not exist
updateBotStatus(s) == IF status = "none" THEN "none" ELSE s

\* ChildProcess.kill(sig): the signal is delivered, and `killed` set, only
\* while the handle still refers to a running process
kill(ch, c, sig) ==
  IF ch[c].state = "alive"
  THEN [ch EXCEPT ![c].killed = TRUE,
                  ![c].sigterm = IF sig = "SIGTERM" THEN @ + 1 ELSE @,
                  ![c].sigkill = IF sig = "SIGKILL" THEN @ + 1 ELSE @]
  ELSE ch

\* clearTimeout of a health-check timeout: only an armed timer is affected
clearProbe(pr, t) ==
  IF t # 0 /\ pr[t].timer = "armed" THEN [pr EXCEPT ![t].timer = "cleared"]
  ELSE pr

NoStart == [pc |-> "idle", origin |-> 0, result |-> "none"]
NoChild == [state |-> "none", killed |-> FALSE, exit |-> "none",
            sigterm |-> 0, sigkill |-> 0]
NoStop == [pc |-> "idle", child |-> 0, result |-> "none", timer |-> "none",
           deadline |-> FALSE, pending |-> {}]
NoRetry == [attempts |-> 0, handle |-> 0]
NoHealth == [consecutiveFailures |-> 0, isWaitingForResponse |-> FALSE,
             healthCheckId |-> 0, timeoutHandle |-> 0]
NoProbe == [timer |-> "none", child |-> 0, obj |-> 0]
NoDelete == [pc |-> "idle", stop |-> 0, result |-> "none", trail |-> "none"]
NoRecovery == [pc |-> "idle", allBots |-> <<>>, todo |-> <<>>]
NoShutdown == [pc |-> "idle", stop |-> 0]
NoUpdate == [pc |-> "idle", status |-> "none", bots |-> <<>>]
NoAppend == [pc |-> "idle", logs |-> <<>>, level |-> "none"]

Init ==
  /\ status = "stopped"
  /\ runningBots = 0
  /\ nStarts = 0
  /\ startT = [k \in Slots |-> NoStart]
  /\ child = [k \in Slots |-> NoChild]
  /\ exitH = [k \in Slots |-> [pc |-> "idle", obj |-> 0]]
  /\ errH = [k \in Slots |-> "idle"]
  /\ grace = [k \in Slots |-> "none"]
  /\ retryData = 0
  /\ retryObj = [o \in Slots |-> NoRetry]
  /\ retryTimer = [k \in Slots |-> "none"]
  /\ nStops = 0
  /\ stopT = [j \in StopSlots |-> NoStop]
  /\ healthCheckData = 0
  /\ healthObj = [h \in Probes |-> NoHealth]
  /\ nProbes = 0
  /\ probe = [p \in Probes |-> NoProbe]
  /\ cycle = [pc |-> "idle", obj |-> 0]
  /\ failT = [p \in Probes |-> [pc |-> "idle", obj |-> 0]]
  /\ succT = [p \in Probes |-> "idle"]
  /\ delT = NoDelete
  /\ logs = FALSE
  /\ bots = [b \in BotIds |-> "stopped"]
  /\ recT = NoRecovery
  /\ backoff = <<>>
  /\ stdoutLines = <<>>
  /\ logFile = <<>>
  /\ appendT = [l \in Lines |-> NoAppend]
  /\ routed = {}
  /\ healthCheckInterval = TRUE
  /\ shutT = NoShutdown
  /\ updT = [b \in BotIds |-> NoUpdate]

\* ------------------------------------------------------------------------
\* startBot
\* ------------------------------------------------------------------------

\* a request calls startBot(botId); the call suspends in storage.getBot
StartCall(limit) ==
  /\ nStarts < limit
  /\ nStarts' = nStarts + 1
  /\ startT' = [startT EXCEPT ![nStarts + 1] =
                  [pc |-> "check", origin |-> 0, result |-> "none"]]
  /\ UNCHANGED <<status, runningBots, child, exitH, errH, grace, retryVars,
                 stopVars, healthVars,
                 delVars, recVars, backoff, outVars, shutVars, updT>>

\* as AlreadyRunning, deciding by the persisted status
AlreadyRunningByStatus == status \in {"running", "unresponsive"}

\* if (this.runningBots.has(botId))
AlreadyRunning == runningBots # 0

\* resumed after getBot: unknown bot throws, a live bot returns false
StartCheck(k) ==
  /\ startT[k].pc = "check"
  /\ startT' = [startT EXCEPT ![k] =
        IF status = "none" THEN [@ EXCEPT !.pc = "fail"]
        ELSE IF AlreadyRunning THEN [@ EXCEPT !.pc = "warn"]
        ELSE [@ EXCEPT !.pc = "write"]]
  /\ logs' = (logs \/ startT[k].origin # 0)
  /\ UNCHANGED <<status, runningBots, nStarts, child, exitH, errH, grace,
                 retryVars, stopVars, healthVars,
                 delT, recVars, backoff, outVars, shutVars, updT>>

\* resumed after addLog('Bot already running'): return false
StartAlready(k) ==
  /\ startT[k].pc = "warn"
  /\ startT' = [startT EXCEPT ![k].pc = "done", ![k].result = "false"]
  /\ logs' = TRUE
  /\ UNCHANGED <<status, runningBots, nStarts, child, exitH, errH, grace,
                 retryVars, stopVars, healthVars,
                 delT, recVars, backoff, outVars, shutVars, updT>>

\* await storage.updateBotStatus(botId, 'starting')
StartWrite(k) ==
  /\ startT[k].pc = "write"
  /\ status' = updateBotStatus("starting")
  /\ startT' = [startT EXCEPT ![k].pc = "spawn"]
  /\ UNCHANGED <<runningBots, nStarts, child, exitH, errH, grace, retryVars,
                 stopVars, healthVars,
                 delVars, recVars, backoff, outVars, shutVars, updT>>

\* after the retry timer's startBot returned true the callback awaits a log
\* and only then deletes the RetryInfo
AfterSpawn(k) == IF startT[k].origin # 0 THEN "rdelete" ELSE "done"

\* resumed after fs.access: spawn, register in runningBots, arm the 1s timer
StartSpawn(k) ==
  /\ startT[k].pc = "spawn"
  /\ child[k].state = "none"
  /\ child' = [child EXCEPT ![k].state = "alive"]
  /\ runningBots' = k
  /\ grace' = [grace EXCEPT ![k] = "armed"]
  /\ startT' = [startT EXCEPT ![k].pc = AfterSpawn(k), ![k].result = "true"]
  /\ logs' = TRUE
  /\ UNCHANGED <<status, nStarts, exitH, errH, retryVars, stopVars,
                 healthVars,
                 delT, recVars, backoff, outVars, shutVars, updT>>

\* spawn() cannot run the command: the handle is registered and startBot
\* returns true, and the 'error' event is emitted on the next tick, where
\* the error listener removes the live entry before any other callback
StartSpawnError(k) ==
  /\ startT[k].pc = "spawn"
  /\ child[k].state = "none"
  /\ child' = [child EXCEPT ![k].state = "errored"]
  /\ runningBots' = 0
  /\ grace' = [grace EXCEPT ![k] = "armed"]
  /\ errH' = [errH EXCEPT ![k] = "status"]
  /\ startT' = [startT EXCEPT ![k].pc = AfterSpawn(k), ![k].result = "true"]
  /\ probe' = IF healthCheckData = 0 THEN probe
              ELSE clearProbe(probe, healthObj[healthCheckData].timeoutHandle)
  /\ healthCheckData' = 0
  /\ logs' = TRUE
  /\ UNCHANGED <<status, nStarts, exitH, retryVars, stopVars, healthObj,
                 nProbes, cycle, failT, succT,
                 delT, recVars, backoff, outVars, shutVars, updT>>

\* main file missing or unsupported extension: suspend in updateBotStatus
StartNoFile(k) ==
  /\ startT[k].pc = "spawn"
  /\ startT' = [startT EXCEPT ![k].pc = "fail"]
  /\ logs' = TRUE
  /\ UNCHANGED <<status, runningBots, nStarts, child, exitH, errH, grace,
                 retryVars, stopVars, healthVars,
                 delT, recVars, backoff, outVars, shutVars, updT>>

\* failure paths: updateBotStatus(botId, 'error'), return false
StartFail(k) ==
  /\ startT[k].pc = "fail"
  /\ status' = updateBotStatus("error")
  /\ startT' = [startT EXCEPT ![k].pc = "done", ![k].result = "false"]
  /\ logs' = TRUE
  /\ UNCHANGED <<runningBots, nStarts, child, exitH, errH, grace, retryVars,
                 stopVars, healthVars,
                 delT, recVars, backoff, outVars, shutVars, updT>>

\* the 'error' listener resumes: updateBotStatus(botId, 'error')
ErrorStatus(c) ==
  /\ errH[c] = "status"
  /\ status' = updateBotStatus("error")
  /\ errH' = [errH EXCEPT ![c] = "done"]
  /\ logs' = TRUE
  /\ UNCHANGED <<runningBots, startVars, child, exitH, grace, retryVars,
                 stopVars, healthVars,
                 delT, recVars, backoff, outVars, shutVars, updT>>

\* as StillLive, with a timer that never marks the bot as running
StillLiveNever(c) == FALSE

\* if (this.runningBots.has(botId) && !childProcess.killed)
StillLive(c) == runningBots # 0 /\ ~child[c].killed

\* the 1s timer fires: the check is synchronous, the write is awaited
GraceFire(c) ==
  /\ grace[c] = "armed"
  /\ grace' = [grace EXCEPT ![c] = IF StillLive(c) THEN "write" ELSE "done"]
  /\ UNCHANGED <<status, runningBots, startVars, child, exitH, errH,
                 retryVars, stopVars, healthVars,
                 delVars, recVars, backoff, outVars, shutVars, updT>>

GraceWrite(c) ==
  /\ grace[c] = "write"
  /\ status' = updateBotStatus("running")
  /\ grace' = [grace EXCEPT ![c] = "done"]
  /\ logs' = TRUE
  /\ UNCHANGED <<runningBots, startVars, child, exitH, errH, retryVars,
                 stopVars, healthVars,
                 delT, recVars, backoff, outVars, shutVars, updT>>

\* ------------------------------------------------------------------------
\* child exit, the 'exit' listener of startBot and scheduleSmartRetry
\* ------------------------------------------------------------------------

\* stopBot's once('exit') listeners of the calls waiting for child c:
\* onExit resolves the promise with true, the second clears the 5s timer
ResolveOnExit(st, c) ==
  [j \in StopSlots |->
     IF st[j].pc = "waiting" /\ st[j].child = c
     THEN [st[j] EXCEPT !.pc = "done", !.result = "true", !.timer = "cleared"]
     ELSE st[j]]

\* child c terminates with outcome o and 'exit' is emitted: the listener of
\* startBot deletes the live entry and the HealthCheckInfo of the bot id,
\* then suspends in updateBotStatus
ChildExit(c, o) ==
  /\ child[c].state = "alive"
  /\ child' = [child EXCEPT ![c].state = "exited", ![c].exit = o]
  /\ runningBots' = 0
  /\ healthCheckData' = 0
  /\ exitH' = [exitH EXCEPT ![c].pc = "status"]
  /\ stopT' = ResolveOnExit(stopT, c)
  /\ UNCHANGED <<status, startVars, errH, grace, retryVars, nStops, healthObj,
                 nProbes, probe, cycle, failT, succT,
                 delVars, recVars, backoff, outVars, shutVars, updT>>

\* as ExitStatusOf, with a null exit code taken for success (!code)
ExitStatusOfNullOk(o) == IF Code(o) <= 0 THEN "stopped" ELSE "error"

\* const status = code === 0 ? 'stopped' : 'error'
ExitStatusOf(o) == IF Code(o) = 0 THEN "stopped" ELSE "error"

\* as Unexpected, deciding by the exit code alone
UnexpectedByCode(o) == Code(o) # 0

\* if (code !== 0 && signal !== 'SIGTERM') scheduleSmartRetry
Unexpected(o) == Code(o) # 0 /\ Signal(o) # "SIGTERM"

\* the listener resumes: the status is written, then the log is awaited
ExitStatus(c) ==
  /\ exitH[c].pc = "status"
  /\ status' = updateBotStatus(ExitStatusOf(child[c].exit))
  /\ exitH' = [exitH EXCEPT ![c].pc =
                 IF Unexpected(child[c].exit) THEN "retry" ELSE "done"]
  /\ logs' = TRUE
  /\ UNCHANGED <<runningBots, startVars, child, errH, grace, retryVars,
                 stopVars, healthVars,
                 delT, recVars, backoff, outVars, shutVars, updT>>

\* attempts of the RetryInfo scheduleSmartRetry works on: the one of the
\* table, or a new object with attempts 0
RetryInfoOf(c) == IF retryData # 0 THEN retryData ELSE c

\* as Incremented, with the counter restarting from 0 on every crash
IncrementedFromZero(r) == [r EXCEPT !.attempts = 1]

\* the object after retryInfo.attempts++
Incremented(r) == [r EXCEPT !.attempts = @ + 1]

\* clearTimeout(h): only a timer that is still armed is affected
clearTimeout(tm, h) ==
  IF h # 0 /\ tm[h] = "armed" THEN [tm EXCEPT ![h] = "cleared"] ELSE tm

\* scheduleSmartRetry up to its first await: the cap, the increment (in
\* place, on the object of the table when there is one) and the clearing
\* of the object's previous timer
ScheduleRetry(c) ==
  /\ exitH[c].pc = "retry"
  /\ LET o == RetryInfoOf(c) IN
       IF retryObj[o].attempts >= MAX_RETRY_ATTEMPTS
       THEN /\ exitH' = [exitH EXCEPT ![c].pc = "maxed"]
            /\ UNCHANGED <<retryObj, retryTimer>>
       ELSE /\ retryObj' = [retryObj EXCEPT ![o] = Incremented(@)]
            /\ retryTimer' = clearTimeout(retryTimer, retryObj[o].handle)
            /\ exitH' = [exitH EXCEPT ![c] = [pc |-> "arm", obj |-> o]]
  /\ UNCHANGED <<status, runningBots, startVars, child, errH, grace,
                 retryData, stopVars, healthVars,
                 delVars, recVars, backoff, outVars, shutVars, updT>>

\* cap reached, after the log: retryData.delete(botId)
RetryMaxed(c) ==
  /\ exitH[c].pc = "maxed"
  /\ retryData' = 0
  /\ exitH' = [exitH EXCEPT ![c].pc = "done"]
  /\ logs' = TRUE
  /\ UNCHANGED <<status, runningBots, startVars, child, errH, grace,
                 retryObj, retryTimer, stopVars, healthVars,
                 delT, recVars, backoff, outVars, shutVars, updT>>

\* after the log: setTimeout, retryData.set(botId, retryInfo)
RetryArm(c) ==
  /\ exitH[c].pc = "arm"
  /\ retryTimer' = [retryTimer EXCEPT ![c] = "armed"]
  /\ retryObj' = [retryObj EXCEPT ![exitH[c].obj].handle = c]
  /\ retryData' = exitH[c].obj
  /\ exitH' = [exitH EXCEPT ![c].pc = "done"]
  /\ logs' = TRUE
  /\ UNCHANGED <<status, runningBots, startVars, child, errH, grace,
                 stopVars, healthVars,
                 delT, recVars, backoff, outVars, shutVars, updT>>

\* the retry timer fires: its callback awaits a log and calls startBot.
\* The delay is at least BASE_RETRY_DELAY (2s), so the 1s timer armed when
\* child c was spawned has fired before
RetryFire(c, limit) ==
  /\ retryTimer[c] = "armed"
  /\ grace[c] # "armed"
  /\ nStarts < limit
  /\ retryTimer' = [retryTimer EXCEPT ![c] = "fired"]
  /\ nStarts' = nStarts + 1
  /\ startT' = [startT EXCEPT ![nStarts + 1] =
                  [pc |-> "check", origin |-> c, result |-> "none"]]
  /\ UNCHANGED <<status, runningBots, child, exitH, errH, grace, retryData,
                 retryObj, stopVars, healthVars,
                 delVars, recVars, backoff, outVars, shutVars, updT>>

\* the callback after a successful startBot: retryData.delete(botId)
RetryReset(k) ==
  /\ startT[k].pc = "rdelete"
  /\ retryData' = 0
  /\ startT' = [startT EXCEPT ![k].pc = "done"]
  /\ logs' = TRUE
  /\ UNCHANGED <<status, runningBots, nStarts, child, exitH, errH, grace,
                 retryObj, retryTimer, stopVars, healthVars,
                 delT, recVars, backoff, outVars, shutVars, updT>>

\* Math.pow(2, n)
RECURSIVE Pow2(_)
Pow2(n) == IF n = 0 THEN 1 ELSE 2 * Pow2(n - 1)

\* as RetryDelay, without the exponential factor
RetryDelayFlat(attempts, jitter) == BASE_RETRY_DELAY + jitter

\* retryDelay = BASE_RETRY_DELAY * Math.pow(2, retryInfo.attempts) + jitter
RetryDelay(attempts, jitter) == BASE_RETRY_DELAY * Pow2(attempts) + jitter

\* scheduleSmartRetry past the cap, on a RetryInfo that has counted the
\* earlier crashes of the episode: the delay is computed from attempts
\* before the increment
Backoff(jitter) ==
  /\ Len(backoff) < MAX_RETRY_ATTEMPTS
  /\ backoff' = Append(backoff,
                  [attempts |-> Len(backoff), jitter |-> jitter,
                   retryDelay |-> RetryDelay(Len(backoff), jitter)])
  /\ UNCHANGED <<status, runningBots, startVars, child, exitH, errH, grace,
                 retryVars, stopVars, healthVars, delVars, recVars, outVars,
                 shutVars, updT>>

\* ------------------------------------------------------------------------
\* stopBot
\* ------------------------------------------------------------------------

\* retry timers that are armed
PendingRetries == {c \in Slots : retryTimer[c] = "armed"}

\* as NotRunning, reporting success for a bot that is not running
NotRunningTrue == [NoStop EXCEPT !.pc = "done", !.result = "true"]

\* if (!childProcess) { addLog('Bot is not running'); return false }
NotRunning == [NoStop EXCEPT !.pc = "done", !.result = "false"]

\* a request calls stopBot(botId): not live returns false after a log;
\* otherwise the call suspends in addLog('Stopping bot...')
StopCall ==
  /\ nStops < MaxStops
  /\ nStops' = nStops + 1
  /\ stopT' = [stopT EXCEPT ![nStops + 1] =
        IF runningBots = 0
        THEN [NotRunning EXCEPT !.pending = PendingRetries]
        ELSE [NoStop EXCEPT !.pc = "log", !.child = runningBots,
                            !.pending = PendingRetries]]
  /\ logs' = (logs \/ runningBots = 0)
  /\ UNCHANGED <<status, runningBots, startVars, child, exitH, errH, grace,
                 retryVars, healthVars,
                 delT, recVars, backoff, outVars, shutVars, updT>>

\* resumed after the log: runningBots.delete(botId), suspend in the write
StopRemove(j) ==
  /\ stopT[j].pc = "log"
  /\ runningBots' = 0
  /\ stopT' = [stopT EXCEPT ![j].pc = "write"]
  /\ logs' = TRUE
  /\ UNCHANGED <<status, startVars, child, exitH, errH, grace, retryVars,
                 nStops, healthVars,
                 delT, recVars, backoff, outVars, shutVars, updT>>

\* status 'stopped' is written; the promise registers its listeners, sends
\* SIGTERM and arms the 5s force-kill timer (a running child that refused
\* the signal of another call refuses this one too, see StopSignalFail)
StopSignal(j) ==
  /\ stopT[j].pc = "write"
  /\ ~(child[stopT[j].child].state = "alive" /\ errH[stopT[j].child] # "idle")
  /\ status' = updateBotStatus("stopped")
  /\ child' = kill(child, stopT[j].child, "SIGTERM")
  /\ stopT' = [stopT EXCEPT ![j].pc = "waiting", ![j].timer = "armed"]
  /\ UNCHANGED <<runningBots, startVars, exitH, errH, grace, retryVars,
                 nStops, healthVars,
                 delVars, recVars, backoff, outVars, shutVars, updT>>

\* as onError, resolving the promise of stopBot with true
onErrorTrue(st) == [st EXCEPT !.pc = "done", !.result = "true"]

\* stopBot's once('error') listener: isResolved = true, resolve(false)
onError(st) == [st EXCEPT !.pc = "done", !.result = "false"]

\* as emitError, with no 'error' listener of startBot on the child
emitErrorUnheard(eh, c) == eh

\* 'error' is emitted on child c: the 'error' listener of startBot runs up
\* to its await of updateBotStatus(botId, 'error')
emitError(eh, c) == [eh EXCEPT ![c] = "status"]

\* the status write is done, but kill('SIGTERM') cannot deliver the signal
\* to the running child and emits 'error': the error listener of startBot
\* removes the live entry and the HealthCheckInfo and suspends in its status
\* write, then onError resolves the promise with false (the force-kill
\* timer armed afterwards finds the promise resolved and does nothing).
\* A child that a signal was delivered to accepts signals
StopSignalFail(j) ==
  /\ stopT[j].pc = "write"
  /\ child[stopT[j].child].state = "alive"
  /\ child[stopT[j].child].sigterm = 0
  /\ status' = updateBotStatus("stopped")
  /\ runningBots' = 0
  /\ probe' = IF healthCheckData = 0 THEN probe
              ELSE clearProbe(probe, healthObj[healthCheckData].timeoutHandle)
  /\ healthCheckData' = 0
  /\ errH' = emitError(errH, stopT[j].child)
  /\ stopT' = [stopT EXCEPT ![j] = onError(@)]
  /\ UNCHANGED <<startVars, child, exitH, grace, retryVars, nStops, healthObj,
                 nProbes, cycle, failT, succT, delVars, recVars, backoff, outVars,
                 shutVars, updT>>

\* the child after the body of the force-kill timer: SIGKILL unless `killed`
ForceKilled(ch, c) == IF ~ch[c].killed THEN kill(ch, c, "SIGKILL") ELSE ch

\* the 5s timer fires before the promise was resolved
ForceKill(j) ==
  /\ stopT[j].pc = "waiting"
  /\ stopT[j].timer = "armed"
  /\ child' = ForceKilled(child, stopT[j].child)
  /\ stopT' = [stopT EXCEPT ![j].pc = "done", ![j].result = "true",
                            ![j].timer = "fired", ![j].deadline = TRUE]
  /\ logs' = (logs \/ ~child[stopT[j].child].killed)
  /\ UNCHANGED <<status, runningBots, startVars, exitH, errH, grace,
                 retryVars, nStops, healthVars,
                 delT, recVars, backoff, outVars, shutVars, updT>>

\* ------------------------------------------------------------------------
\* deleteBot
\* ------------------------------------------------------------------------

\* a request calls deleteBot(botId): a live bot is stopped first (stopBot
\* runs up to its first await), otherwise the call suspends in getBot
DeleteCall ==
  /\ delT.pc = "idle"
  /\ IF runningBots # 0
     THEN /\ nStops < MaxStops
          /\ nStops' = nStops + 1
          /\ stopT' = [stopT EXCEPT ![nStops + 1] =
                [NoStop EXCEPT !.pc = "log", !.child = runningBots,
                               !.pending = PendingRetries]]
          /\ delT' = [delT EXCEPT !.pc = "stopping", !.stop = nStops + 1]
     ELSE /\ delT' = [delT EXCEPT !.pc = "get"]
          /\ UNCHANGED stopVars
  /\ UNCHANGED <<status, runningBots, startVars, child, exitH, errH, grace,
                 retryVars, healthVars, logs, recVars, backoff, outVars,
                 shutVars, updT>>

\* stopBot has resolved: the call suspends in getBot
DeleteStopped ==
  /\ delT.pc = "stopping"
  /\ stopT[delT.stop].pc = "done"
  /\ delT' = [delT EXCEPT !.pc = "get"]
  /\ UNCHANGED <<status, runningBots, startVars, child, exitH, errH, grace,
                 retryVars, stopVars, healthVars, logs, recVars, backoff, outVars,
                 shutVars, updT>>

\* resumed after getBot and, for a known bot, after fs.rm of its directory:
\* addLog('Removed bot files') is started and not awaited, the call
\* suspends in storage.deleteBot
DeleteFiles ==
  /\ delT.pc = "get"
  /\ delT' = [delT EXCEPT !.pc = "record",
                          !.trail = IF status # "none" THEN "pending" ELSE @]
  /\ UNCHANGED <<status, runningBots, startVars, child, exitH, errH, grace,
                 retryVars, stopVars, healthVars, logs, recVars, backoff, outVars,
                 shutVars, updT>>

\* storage.deleteBot removes the record; the call suspends in deleteBotLogs
DeleteRecord ==
  /\ delT.pc = "record"
  /\ status' = "none"
  /\ delT' = [delT EXCEPT !.pc = "logs"]
  /\ UNCHANGED <<runningBots, startVars, child, exitH, errH, grace,
                 retryVars, stopVars, healthVars, logs, recVars, backoff, outVars,
                 shutVars, updT>>

\* logStorage.deleteBotLogs unlinks the log file; deleteBot returns true
DeleteLogs ==
  /\ delT.pc = "logs"
  /\ logs' = FALSE
  /\ delT' = [delT EXCEPT !.pc = "done", !.result = "true"]
  /\ UNCHANGED <<status, runningBots, startVars, child, exitH, errH, grace,
                 retryVars, stopVars, healthVars, recVars, backoff, outVars,
                 shutVars, updT>>

\* the addLog that deleteBot did not await writes its entry
DeleteTrail ==
  /\ delT.trail = "pending"
  /\ logs' = TRUE
  /\ delT' = [delT EXCEPT !.trail = "written"]
  /\ UNCHANGED <<status, runningBots, startVars, child, exitH, errH, grace,
                 retryVars, stopVars, healthVars, recVars, backoff, outVars,
                 shutVars, updT>>

\* ------------------------------------------------------------------------
\* recoverRunningBots
\* ------------------------------------------------------------------------

\* as WasRunning, taking every record that is not stopped
WasNotStopped(s) == s # "stopped"

\* allBots.filter(bot => bot.status === 'running')
WasRunning(s) == s = "running"

\* the 1s timer of the constructor fires: the call suspends in getAllBots
RecoverCall ==
  /\ recT.pc = "idle"
  /\ recT' = [recT EXCEPT !.pc = "read"]
  /\ UNCHANGED <<status, runningBots, startVars, child, exitH, errH, grace,
                 retryVars, stopVars, healthVars, delVars, bots,
                 backoff, outVars, shutVars, updT>>

\* resumed with the records: the running ones are filtered out of them
RecoverRead ==
  /\ recT.pc = "read"
  /\ LET all == [b \in BotIds |-> bots[b]]
         ids == [b \in BotIds |-> b]
         run == SelectSeq(ids, LAMBDA b : WasRunning(all[b]))
     IN recT' = [pc |-> IF run = <<>> THEN "done" ELSE "loop",
                 allBots |-> all, todo |-> run]
  /\ UNCHANGED <<status, runningBots, startVars, child, exitH, errH, grace,
                 retryVars, stopVars, healthVars, delVars, bots,
                 backoff, outVars, shutVars, updT>>

\* one turn of the loop: updateBotStatus(bot.id, 'stopped') and a log; the
\* call to startBot is commented out
RecoverReset ==
  /\ recT.pc = "loop"
  /\ bots' = [bots EXCEPT ![Head(recT.todo)] = "stopped"]
  /\ recT' = [recT EXCEPT !.todo = Tail(@),
                          !.pc = IF Tail(recT.todo) = <<>> THEN "done" ELSE @]
  /\ UNCHANGED <<status, runningBots, startVars, child, exitH, errH, grace,
                 retryVars, stopVars, healthVars, delVars, backoff, outVars,
                 shutVars, updT>>

\* ------------------------------------------------------------------------
\* health monitor
\* ------------------------------------------------------------------------

\* as FailedInfo, with the failures set to 1 instead of counted
FailedInfoOnce(r) == [r EXCEPT !.timeoutHandle = 0,
                               !.isWaitingForResponse = FALSE,
                               !.consecutiveFailures = 1]

\* handleHealthCheckFailure up to its first await, on HealthCheckInfo h
FailedInfo(r) == [r EXCEPT !.timeoutHandle = 0,
                           !.isWaitingForResponse = FALSE,
                           !.consecutiveFailures = @ + 1]

\* handleHealthCheckSuccess up to its first await, on HealthCheckInfo h
PassedInfo(r) == [r EXCEPT !.timeoutHandle = 0,
                           !.isWaitingForResponse = FALSE,
                           !.consecutiveFailures = 0]

\* as Unresponsive, with > for >=
UnresponsiveLate(r) == r.consecutiveFailures > MAX_CONSECUTIVE_FAILURES

\* if (healthInfo.consecutiveFailures >= this.MAX_CONSECUTIVE_FAILURES)
Unresponsive(r) == r.consecutiveFailures >= MAX_CONSECUTIVE_FAILURES

\* the interval timer fires while the id is live: performHealthChecks takes
\* its snapshot of the live ids and reaches this id after the checks of the
\* ids before it
CycleStart ==
  /\ healthCheckInterval
  /\ cycle.pc = "idle"
  /\ runningBots # 0
  /\ cycle' = [pc |-> "check", obj |-> 0]
  /\ UNCHANGED <<status, runningBots, startVars, child, exitH, errH, grace,
                 retryVars, stopVars, healthCheckData, healthObj, nProbes,
                 probe, failT, succT,
                 delVars, recVars, backoff, outVars, shutVars, updT>>

\* if (!childProcess || childProcess.killed) is false
LiveHandle == IF runningBots = 0 THEN FALSE ELSE ~child[runningBots].killed

\* as Waiting, with no probe ever taken for outstanding
WaitingNever == FALSE

\* isWaitingForResponse of the HealthCheckInfo of the table (none: false)
Waiting ==
  IF healthCheckData = 0 THEN FALSE
  ELSE healthObj[healthCheckData].isWaitingForResponse

\* performBotHealthCheck: the handle is gone or killed
CycleDead ==
  /\ cycle.pc = "check"
  /\ ~LiveHandle
  /\ runningBots' = 0
  /\ healthCheckData' = 0
  /\ cycle' = [pc |-> "dead", obj |-> 0]
  /\ UNCHANGED <<status, startVars, child, exitH, errH, grace, retryVars,
                 stopVars, healthObj, nProbes, probe, failT, succT,
                 delVars, recVars, backoff, outVars, shutVars, updT>>

\* ... then updateBotStatus(botId, 'error')
CycleDeadWrite ==
  /\ cycle.pc = "dead"
  /\ status' = updateBotStatus("error")
  /\ cycle' = [pc |-> "idle", obj |-> 0]
  /\ logs' = TRUE
  /\ UNCHANGED <<runningBots, startVars, child, exitH, errH, grace, retryVars,
                 stopVars, healthCheckData, healthObj, nProbes, probe, failT,
                 succT,
                 delT, recVars, backoff, outVars, shutVars, updT>>

\* performBotHealthCheck: a probe is outstanding; when it is older than
\* HEALTH_CHECK_TIMEOUT it is counted as a failure
CycleWaiting(expired) ==
  /\ cycle.pc = "check"
  /\ LiveHandle
  /\ Waiting
  /\ IF expired
     THEN /\ healthObj' = [healthObj EXCEPT ![healthCheckData] = FailedInfo(@)]
          /\ probe' = clearProbe(probe, healthObj[healthCheckData].timeoutHandle)
          /\ cycle' = [pc |-> "flog", obj |-> healthCheckData]
     ELSE /\ cycle' = [pc |-> "idle", obj |-> 0]
          /\ UNCHANGED <<healthObj, probe>>
  /\ UNCHANGED <<status, runningBots, startVars, child, exitH, errH, grace,
                 retryVars, stopVars, healthCheckData, nProbes, failT, succT,
                 delVars, recVars, backoff, outVars, shutVars, updT>>

\* performBotHealthCheck: no probe outstanding; the HealthCheckInfo is
\* created when absent, a new id is generated and written to the stdin of
\* the live child, and the timeout is armed; without a usable stdin the
\* probe fails at once
CycleProbe(stdinOk, limit) ==
  /\ cycle.pc = "check"
  /\ LiveHandle
  /\ ~Waiting
  /\ nProbes < limit
  /\ LET p == nProbes + 1
         h == IF healthCheckData = 0 THEN p ELSE healthCheckData
         sent == [healthObj[h] EXCEPT !.isWaitingForResponse = TRUE,
                                      !.healthCheckId = p]
     IN /\ nProbes' = p
        /\ healthCheckData' = h
        /\ IF stdinOk
           THEN /\ healthObj' = [healthObj EXCEPT ![h] =
                                   [sent EXCEPT !.timeoutHandle = p]]
                /\ probe' = [probe EXCEPT ![p] =
                     [timer |-> "armed", child |-> runningBots, obj |-> h]]
                /\ cycle' = [pc |-> "idle", obj |-> 0]
           ELSE /\ healthObj' = [healthObj EXCEPT ![h] = FailedInfo(sent)]
                /\ probe' = clearProbe(probe, sent.timeoutHandle)
                /\ cycle' = [pc |-> "flog", obj |-> h]
  /\ UNCHANGED <<status, runningBots, startVars, child, exitH, errH, grace,
                 retryVars, stopVars, failT, succT,
                 delVars, recVars, backoff, outVars, shutVars, updT>>

\* as restartUnresponsiveBot, with the restart enabled: the id leaves the
\* live table
restartUnresponsiveBotEnabled(rb) == 0

\* the live table after the threshold branch of handleHealthCheckFailure:
\* the restart of the unresponsive bot is commented out
restartUnresponsiveBot(rb) == rb

\* handleHealthCheckFailure awaited by the cycle resumes after its log
CycleFailCheck ==
  /\ cycle.pc = "flog"
  /\ cycle' = IF Unresponsive(healthObj[cycle.obj])
              THEN [cycle EXCEPT !.pc = "fwrite"]
              ELSE [pc |-> "idle", obj |-> 0]
  /\ logs' = TRUE
  /\ UNCHANGED <<status, runningBots, startVars, child, exitH, errH, grace,
                 retryVars, stopVars, healthCheckData, healthObj, nProbes,
                 probe, failT, succT,
                 delT, recVars, backoff, outVars, shutVars, updT>>

CycleFailWrite ==
  /\ cycle.pc = "fwrite"
  /\ status' = updateBotStatus("unresponsive")
  /\ runningBots' = restartUnresponsiveBot(runningBots)
  /\ cycle' = [pc |-> "idle", obj |-> 0]
  /\ logs' = TRUE
  /\ UNCHANGED <<startVars, child, exitH, errH, grace, retryVars,
                 stopVars, healthCheckData, healthObj, nProbes, probe, failT,
                 succT,
                 delT, recVars, backoff, outVars, shutVars, updT>>

\* the timeout of probe p fires: its closure tests the HealthCheckInfo it
\* captured, handleHealthCheckFailure works on the one of the table
ProbeTimeout(p) ==
  /\ probe[p].timer = "armed"
  /\ LET mine == healthObj[probe[p].obj]
         fired == [probe EXCEPT ![p].timer = "fired"]
     IN IF mine.isWaitingForResponse /\ mine.healthCheckId = p
           /\ healthCheckData # 0
        THEN /\ healthObj' = [healthObj EXCEPT ![healthCheckData] =
                                FailedInfo(@)]
             /\ probe' = clearProbe(fired,
                                    healthObj[healthCheckData].timeoutHandle)
             /\ failT' = [failT EXCEPT ![p] =
                            [pc |-> "log", obj |-> healthCheckData]]
        ELSE /\ probe' = fired
             /\ UNCHANGED <<healthObj, failT>>
  /\ UNCHANGED <<status, runningBots, startVars, child, exitH, errH, grace,
                 retryVars, stopVars, healthCheckData, nProbes, cycle, succT,
                 delVars, recVars, backoff, outVars, shutVars, updT>>

\* that handleHealthCheckFailure resumes after its log
FailCheck(p) ==
  /\ failT[p].pc = "log"
  /\ failT' = [failT EXCEPT ![p].pc =
                 IF Unresponsive(healthObj[failT[p].obj]) THEN "write"
                 ELSE "done"]
  /\ logs' = TRUE
  /\ UNCHANGED <<status, runningBots, startVars, child, exitH, errH, grace,
                 retryVars, stopVars, healthCheckData, healthObj, nProbes,
                 probe, cycle, succT,
                 delT, recVars, backoff, outVars, shutVars, updT>>

FailWrite(p) ==
  /\ failT[p].pc = "write"
  /\ status' = updateBotStatus("unresponsive")
  /\ runningBots' = restartUnresponsiveBot(runningBots)
  /\ failT' = [failT EXCEPT ![p].pc = "done"]
  /\ logs' = TRUE
  /\ UNCHANGED <<startVars, child, exitH, errH, grace, retryVars,
                 stopVars, healthCheckData, healthObj, nProbes, probe, cycle,
                 succT,
                 delT, recVars, backoff, outVars, shutVars, updT>>

\* as Accepted, without the comparison of the ids
AcceptedAny(tok) == healthCheckData # 0

\* if (!healthInfo || healthInfo.healthCheckId !== healthCheckId) return
Accepted(tok) ==
  IF healthCheckData = 0 THEN FALSE
  ELSE healthObj[healthCheckData].healthCheckId = tok

\* positions of handleHealthCheckSuccess(botId, tok) after it returned:
\* "ignored" by the early return, "done"/"restored" at its end
Returned == {"idle", "done", "restored", "ignored"}

\* child c, which received probe tok, prints the response line for it:
\* the stdout listener calls handleHealthCheckSuccess(botId, tok), which
\* returns at once for an outdated id
Response(c, tok) ==
  /\ child[c].state = "alive"
  /\ probe[tok].child = c
  /\ succT[tok] \in Returned
  /\ IF Accepted(tok)
     THEN /\ healthObj' = [healthObj EXCEPT ![healthCheckData] = PassedInfo(@)]
          /\ probe' = clearProbe(probe,
                                 healthObj[healthCheckData].timeoutHandle)
          /\ succT' = [succT EXCEPT ![tok] = "read"]
     ELSE /\ succT' = [succT EXCEPT ![tok] = "ignored"]
          /\ UNCHANGED <<healthObj, probe>>
  /\ UNCHANGED <<status, runningBots, startVars, child, exitH, errH, grace,
                 retryVars, stopVars, healthCheckData, nProbes, cycle, failT,
                 delVars, recVars, backoff, outVars, shutVars, updT>>

\* resumed after storage.getBot
SuccessRead(p) ==
  /\ succT[p] = "read"
  /\ succT' = [succT EXCEPT ![p] =
                 IF status = "unresponsive" THEN "write" ELSE "done"]
  /\ logs' = (logs \/ status # "unresponsive")
  /\ UNCHANGED <<status, runningBots, startVars, child, exitH, errH, grace,
                 retryVars, stopVars, healthCheckData, healthObj, nProbes,
                 probe, cycle, failT,
                 delT, recVars, backoff, outVars, shutVars, updT>>

SuccessWrite(p) ==
  /\ succT[p] = "write"
  /\ status' = updateBotStatus("running")
  /\ succT' = [succT EXCEPT ![p] = "restored"]
  /\ logs' = TRUE
  /\ UNCHANGED <<runningBots, startVars, child, exitH, errH, grace, retryVars,
                 stopVars, healthCheckData, healthObj, nProbes, probe, cycle,
                 failT,
                 delT, recVars, backoff, outVars, shutVars, updT>>

\* ------------------------------------------------------------------------
\* FileStorage.updateBotStatus on the bots file
\* ------------------------------------------------------------------------

\* updateBotStatus(b, st) is called and suspends in readBots
UpdateCall(b, st) ==
  /\ updT[b].pc = "idle"
  /\ updT' = [updT EXCEPT ![b] = [pc |-> "read", status |-> st, bots |-> <<>>]]
  /\ UNCHANGED <<status, runningBots, startVars, child, exitH, errH, grace,
                 retryVars, stopVars, healthVars, delVars, recVars, backoff,
                 outVars, shutVars>>

\* resumed with the records of the file: the record of b is replaced in
\* the map that was read and the call suspends in writeBots
UpdateRead(b) ==
  /\ updT[b].pc = "read"
  /\ updT' = [updT EXCEPT ![b].pc = "write",
                          ![b].bots = [bots EXCEPT ![b] = updT[b].status]]
  /\ UNCHANGED <<status, runningBots, startVars, child, exitH, errH, grace,
                 retryVars, stopVars, healthVars, delVars, recVars, backoff,
                 outVars, shutVars>>

\* writeFile completes: the file holds the map of this call
UpdateWrite(b) ==
  /\ updT[b].pc = "write"
  /\ bots' = updT[b].bots
  /\ updT' = [updT EXCEPT ![b].pc = "done"]
  /\ UNCHANGED <<status, runningBots, startVars, child, exitH, errH, grace,
                 retryVars, stopVars, healthVars, delVars, recT, backoff,
                 outVars, shutVars>>

\* ------------------------------------------------------------------------
\* shutdown
\* ------------------------------------------------------------------------

\* shutdown() is called (the class defines the method twice, the second
\* definition is the one of the object): the retry timer of the RetryInfo is
\* cleared and the table emptied, then stopBot is called for the live id
\* and runs up to its first await
ShutdownCall ==
  /\ shutT.pc = "idle"
  /\ retryTimer' = IF retryData = 0 THEN retryTimer
                   ELSE clearTimeout(retryTimer, retryObj[retryData].handle)
  /\ retryData' = 0
  /\ IF runningBots # 0
     THEN /\ nStops < MaxStops
          /\ nStops' = nStops + 1
          /\ stopT' = [stopT EXCEPT ![nStops + 1] =
                [NoStop EXCEPT !.pc = "log", !.child = runningBots,
                               !.pending = PendingRetries]]
          /\ shutT' = [pc |-> "stopping", stop |-> nStops + 1]
     ELSE /\ shutT' = [pc |-> "stopping", stop |-> 0]
          /\ UNCHANGED stopVars
  /\ UNCHANGED <<status, runningBots, startVars, child, exitH, errH, grace,
                 retryObj, healthVars, delVars, recVars, backoff, outVars,
                 healthCheckInterval, updT>>

\* Promise.all of the stopBot calls has resolved: shutdown returns
ShutdownDone ==
  /\ shutT.pc = "stopping"
  /\ shutT.stop # 0 => stopT[shutT.stop].pc = "done"
  /\ shutT' = [shutT EXCEPT !.pc = "done"]
  /\ UNCHANGED <<status, runningBots, startVars, child, exitH, errH, grace,
                 retryVars, stopVars, healthVars, delVars, recVars, backoff,
                 outVars, healthCheckInterval, updT>>

\* ------------------------------------------------------------------------
\* the stdout listener of startBot and the log file
\* ------------------------------------------------------------------------

\* if (logs.length > 1000) logs.shift()
Keep(entries) == IF Len(entries) > LogCap THEN Tail(entries) ELSE entries

\* as LevelOf, with the malformed response logged like a plain line
LevelOfInfo(kind) == "info"

\* the level of the entry a line is logged with: addLog(botId, 'info',
\* message) for a plain line, addLog(botId, 'warn', 'Malformed health check
\* response received') for a marker without an id
LevelOf(kind) == IF kind = "malformed" THEN "warn" ELSE "info"

\* child c writes a chunk to stdout and 'data' is emitted: every non-empty
\* line with the marker goes to processHealthCheckResponse, which passes the
\* id to handleHealthCheckSuccess or logs a warning when the line has none;
\* every other non-empty line starts an addLog call. The addLog calls are
\* not awaited and suspend in the readFile of getLogs. The ids of the
\* response lines were never issued, handleHealthCheckSuccess returns at
\* once for them
StdoutData(c, chunk) ==
  /\ child[c].state = "alive"
  /\ Len(stdoutLines) + Len(chunk) <= MaxLines
  /\ LET first == Len(stdoutLines)
         new == {first + i : i \in DOMAIN chunk}
     IN /\ stdoutLines' = stdoutLines \o chunk
        /\ appendT' = [l \in Lines |->
              IF l \in new /\ chunk[l - first] \in {"msg", "malformed"}
              THEN [pc |-> "read", logs |-> <<>>,
                    level |-> LevelOf(chunk[l - first])]
              ELSE appendT[l]]
        /\ routed' = routed \cup {l \in new : chunk[l - first] = "response"}
  /\ UNCHANGED <<status, runningBots, startVars, child, exitH, errH, grace,
                 retryVars, stopVars, healthVars, delVars, recVars, backoff, shutVars, updT,
                 logFile>>

\* logStorage.addLog for line l resumes with the entries of the file: the
\* entry is pushed, the array is capped and writeFile is awaited
AppendRead(l) ==
  /\ appendT[l].pc = "read"
  /\ appendT' = [appendT EXCEPT ![l].pc = "write",
                                ![l].logs = Keep(Append(logFile, l))]
  /\ UNCHANGED <<status, runningBots, startVars, child, exitH, errH, grace,
                 retryVars, stopVars, healthVars, delVars, recVars, backoff, shutVars, updT,
                 stdoutLines, logFile, routed>>

\* writeFile completes: the file holds the array of this call
AppendWrite(l) ==
  /\ appendT[l].pc = "write"
  /\ logFile' = appendT[l].logs
  /\ appendT' = [appendT EXCEPT ![l].pc = "done"]
  /\ logs' = TRUE
  /\ UNCHANGED <<status, runningBots, startVars, child, exitH, errH, grace,
                 retryVars, stopVars, healthVars, delT, recVars, backoff, shutVars, updT,
                 stdoutLines, routed>>

\* ------------------------------------------------------------------------
\* specifications
\* ------------------------------------------------------------------------

StartSteps ==
  \E k \in Slots :
    \/ StartCheck(k) \/ StartWrite(k) \/ StartSpawn(k) \/ StartSpawnError(k)
    \/ StartNoFile(k) \/ StartFail(k) \/ ErrorStatus(k)
    \/ GraceFire(k) \/ GraceWrite(k)

ExitSteps ==
  \E c \in Slots :
    \/ \E o \in ExitOutcomes : ChildExit(c, o)
    \/ ExitStatus(c) \/ ScheduleRetry(c) \/ RetryArm(c)

StopSteps ==
  \E j \in StopSlots :
    StopRemove(j) \/ StopSignal(j) \/ StopSignalFail(j) \/ ForceKill(j)

ProbeSteps(limit) ==
  \/ CycleStart
  \/ \E b \in BOOLEAN : CycleWaiting(b) \/ CycleProbe(b, limit)
  \/ CycleFailCheck
  \/ \E p \in Probes :
       \/ ProbeTimeout(p) \/ FailCheck(p) \/ SuccessRead(p)
       \/ \E c \in Slots : Response(c, p)

UnresponsiveSteps ==
  \/ CycleFailWrite
  \/ \E p \in Probes : FailWrite(p) \/ SuccessWrite(p)

\* the supervisor under start and stop requests, child exits and timers
Next ==
  \/ StartCall(MaxStarts) \/ StartSteps
  \/ ExitSteps
  \/ \E c \in Slots : RetryFire(c, MaxStarts) \/ RetryReset(c)
                        \/ StartAlready(c)
  \/ StopCall \/ StopSteps

Spec == Init /\ [][Next]_vars

\* ... where the 1s timers fire and the awaits of startBot, of the timers,
\* of the listeners and of stopBot complete
SpecLive ==
  /\ Init /\ [][Next]_vars
  /\ WF_vars(\E k \in Slots : StartCheck(k) \/ StartWrite(k) \/ StartFail(k))
  /\ WF_vars(\E k \in Slots : StartSpawn(k) \/ StartSpawnError(k)
                                \/ StartNoFile(k))
  /\ WF_vars(\E c \in Slots : GraceFire(c) \/ GraceWrite(c))
  /\ WF_vars(\E c \in Slots : ExitStatus(c) \/ ErrorStatus(c))
  /\ WF_vars(StopSteps)

\* no callback is suspended in an await
Quiet ==
  /\ \A k \in Slots : /\ startT[k].pc \in {"idle", "done"}
                       /\ exitH[k].pc \in {"idle", "done"}
                       /\ errH[k] \in {"idle", "done"}
                       /\ grace[k] \in {"none", "armed", "done"}
  /\ \A j \in StopSlots : stopT[j].pc \in {"idle", "waiting", "done"}
  /\ cycle.pc = "idle"
  /\ \A p \in Probes : /\ failT[p].pc \in {"idle", "done"}
                        /\ succT[p] \in Returned

\* one start request, then only child exits and automatic restarts; a retry
\* timer fires after the callbacks of the earlier children have finished
NextLoop ==
  \/ StartCall(1) \/ StartSteps
  \/ ExitSteps
  \/ Quiet /\ \E c \in Slots : RetryFire(c, MaxLoopStarts)
  \/ \E c \in Slots : RetryReset(c) \/ RetryMaxed(c)

SpecLoop == Init /\ [][NextLoop]_vars

\* the state after startBot returned true and the 1s timer marked the bot
\* as running
InitRunning ==
  /\ status = "running"
  /\ runningBots = 1
  /\ nStarts = 1
  /\ startT = [k \in Slots |-> IF k = 1
                 THEN [pc |-> "done", origin |-> 0, result |-> "true"]
                 ELSE NoStart]
  /\ child = [k \in Slots |-> IF k = 1 THEN [NoChild EXCEPT !.state = "alive"]
                              ELSE NoChild]
  /\ exitH = [k \in Slots |-> [pc |-> "idle", obj |-> 0]]
  /\ errH = [k \in Slots |-> "idle"]
  /\ grace = [k \in Slots |-> IF k = 1 THEN "done" ELSE "none"]
  /\ retryData = 0
  /\ retryObj = [o \in Slots |-> NoRetry]
  /\ retryTimer = [k \in Slots |-> "none"]
  /\ nStops = 0
  /\ stopT = [j \in StopSlots |-> NoStop]
  /\ healthCheckData = 0
  /\ healthObj = [h \in Probes |-> NoHealth]
  /\ nProbes = 0
  /\ probe = [p \in Probes |-> NoProbe]
  /\ cycle = [pc |-> "idle", obj |-> 0]
  /\ failT = [p \in Probes |-> [pc |-> "idle", obj |-> 0]]
  /\ succT = [p \in Probes |-> "idle"]
  /\ delT = NoDelete
  /\ logs = TRUE
  /\ bots = [b \in BotIds |-> "stopped"]
  /\ recT = NoRecovery
  /\ backoff = <<>>
  /\ stdoutLines = <<>>
  /\ logFile = <<>>
  /\ appendT = [l \in Lines |-> NoAppend]
  /\ routed = {}
  /\ healthCheckInterval = TRUE
  /\ shutT = NoShutdown
  /\ updT = [b \in BotIds |-> NoUpdate]

\* the health monitor on a running bot, until the bot exits by itself
NextHealth ==
  \/ ProbeSteps(MaxProbes) \/ UnresponsiveSteps
  \/ CycleDead \/ CycleDeadWrite
  \/ \E c \in Slots : ChildExit(c, "code0") \/ ExitStatus(c)

SpecHealth == InitRunning /\ [][NextHealth]_vars

\* one start and one stop request with the health monitor running
NextStop ==
  \/ StartCall(1) \/ StartSteps
  \/ ExitSteps
  \/ StopCall \/ StopSteps
  \/ ProbeSteps(MaxStopProbes)
  \/ CycleDead \/ CycleDeadWrite

SpecStop == Init /\ [][NextStop]_vars

\* ... where the awaits of stopBot complete and its 5s timer fires
SpecStopLive == Init /\ [][NextStop]_vars /\ WF_vars(StopSteps)

\* ... where the awaits of stopBot and of the 'error' listener complete
SpecStopFair ==
  /\ Init /\ [][NextStop]_vars
  /\ WF_vars(StopSteps)
  /\ WF_vars(\E c \in Slots : ErrorStatus(c))

\* one start request, crashes and automatic restarts, and one delete request
NextDelete ==
  \/ StartCall(1) \/ StartSteps
  \/ ExitSteps
  \/ \E c \in Slots : RetryFire(c, MaxStarts) \/ RetryReset(c)
  \/ StopSteps
  \/ DeleteCall \/ DeleteStopped \/ DeleteFiles \/ DeleteRecord
  \/ DeleteLogs \/ DeleteTrail

SpecDelete == Init /\ [][NextDelete]_vars

\* the health monitor on a running bot that never prints a response
NextMute ==
  \/ CycleStart
  \/ \E b \in BOOLEAN : CycleWaiting(b) \/ CycleProbe(b, MaxProbes)
  \/ CycleFailCheck \/ CycleFailWrite
  \/ \E p \in Probes : ProbeTimeout(p) \/ FailCheck(p) \/ FailWrite(p)

\* the interval timer and the timeouts fire, the awaits complete
FairMute ==
  /\ WF_vars(CycleStart)
  /\ WF_vars(\E b \in BOOLEAN : CycleWaiting(b) \/ CycleProbe(b, MaxProbes))
  /\ WF_vars(CycleFailCheck) /\ WF_vars(CycleFailWrite)
  /\ \A p \in Probes : /\ WF_vars(ProbeTimeout(p))
                        /\ WF_vars(FailCheck(p))
                        /\ WF_vars(FailWrite(p))

SpecMute == InitRunning /\ [][NextMute]_vars /\ FairMute

\* start requests for a bot whose children all crash with exit code 1 and
\* the exit listeners, within the second before any grace or retry timer fires
NextRace ==
  \/ StartCall(MaxRaceStarts)
  \/ \E k \in Slots : \/ StartCheck(k) \/ StartWrite(k) \/ StartSpawn(k)
                        \/ StartAlready(k)
  \/ \E c \in Slots : \/ ChildExit(c, "code1") \/ ExitStatus(c)
                        \/ ScheduleRetry(c) \/ RetryArm(c)

SpecRace == Init /\ [][NextRace]_vars

\* a running bot prints lines on stdout
NextLog ==
  \/ \E c \in Slots, chunk \in Chunks : StdoutData(c, chunk)
  \/ \E l \in Lines : AppendRead(l) \/ AppendWrite(l)

SpecLog == InitRunning /\ [][NextLog]_vars

\* a running bot that is probed prints lines on stdout
NextProtocol ==
  \/ ProbeSteps(MaxStopProbes)
  \/ \E c \in Slots, chunk \in Chunks : StdoutData(c, chunk)
  \/ \E l \in Lines : AppendRead(l) \/ AppendWrite(l)

SpecProtocol == InitRunning /\ [][NextProtocol]_vars

\* one start request, child exits, the health monitor and a shutdown
NextShutdown ==
  \/ StartCall(1) \/ StartSteps
  \/ ExitSteps
  \/ StopSteps
  \/ ProbeSteps(MaxStopProbes)
  \/ CycleDead \/ CycleDeadWrite
  \/ ShutdownCall \/ ShutdownDone

SpecShutdown == Init /\ [][NextShutdown]_vars

\* as TimeoutsDue, with a tick of the interval timer at any time
TimeoutsDueAnytime == TRUE

\* HEALTH_CHECK_TIMEOUT (30s) is shorter than HEALTH_CHECK_INTERVAL (60s):
\* when the interval timer fires, the timeouts armed by the cycle before
\* have fired or were cleared
TimeoutsDue == \A p \in Probes : probe[p].timer # "armed"

\* a running bot that is probed exits and is started again by a request
NextStale ==
  \/ TimeoutsDue /\ CycleStart
  \/ \E b \in BOOLEAN : CycleProbe(b, MaxStaleProbes)
  \/ CycleFailCheck \/ CycleDead \/ CycleDeadWrite
  \/ \E p \in Probes :
       \/ ProbeTimeout(p) \/ FailCheck(p) \/ SuccessRead(p)
       \/ \E c \in Slots : Response(c, p)
  \/ \E c \in Slots : \/ \E o \in ExitOutcomes : ChildExit(c, o)
                        \/ ExitStatus(c)
  \/ StartCall(MaxStarts)
  \/ \E k \in Slots : \/ StartCheck(k) \/ StartWrite(k) \/ StartSpawn(k)
                        \/ GraceFire(k) \/ GraceWrite(k)

SpecStale == InitRunning /\ [][NextStale]_vars

\* status updates of the stored records, one call per record
NextUpdate ==
  \E b \in BotIds :
    \/ \E st \in Statuses : UpdateCall(b, st)
    \/ UpdateRead(b) \/ UpdateWrite(b)

SpecUpdate == Init /\ [][NextUpdate]_vars

\* the delays of consecutive retries, for any jitter
NextBackoff == \E j \in Jitters : Backoff(j)

SpecBackoff == Init /\ [][NextBackoff]_vars

\* the supervisor is constructed over any stored records
InitRecover ==
  /\ status = "stopped"
  /\ runningBots = 0
  /\ nStarts = 0
  /\ startT = [k \in Slots |-> NoStart]
  /\ child = [k \in Slots |-> NoChild]
  /\ exitH = [k \in Slots |-> [pc |-> "idle", obj |-> 0]]
  /\ errH = [k \in Slots |-> "idle"]
  /\ grace = [k \in Slots |-> "none"]
  /\ retryData = 0
  /\ retryObj = [o \in Slots |-> NoRetry]
  /\ retryTimer = [k \in Slots |-> "none"]
  /\ nStops = 0
  /\ stopT = [j \in StopSlots |-> NoStop]
  /\ healthCheckData = 0
  /\ healthObj = [h \in Probes |-> NoHealth]
  /\ nProbes = 0
  /\ probe = [p \in Probes |-> NoProbe]
  /\ cycle = [pc |-> "idle", obj |-> 0]
  /\ failT = [p \in Probes |-> [pc |-> "idle", obj |-> 0]]
  /\ succT = [p \in Probes |-> "idle"]
  /\ delT = NoDelete
  /\ logs = FALSE
  /\ bots \in [BotIds -> Statuses]
  /\ recT = NoRecovery
  /\ backoff = <<>>
  /\ stdoutLines = <<>>
  /\ logFile = <<>>
  /\ appendT = [l \in Lines |-> NoAppend]
  /\ routed = {}
  /\ healthCheckInterval = TRUE
  /\ shutT = NoShutdown
  /\ updT = [b \in BotIds |-> NoUpdate]

NextRecover == RecoverCall \/ RecoverRead \/ RecoverReset

SpecRecover == InitRecover /\ [][NextRecover]_vars

\* ------------------------------------------------------------------------
\* properties
\* ------------------------------------------------------------------------

\* children started by a request that run and were not the target of a stop
Untouched ==
  {c \in Slots : /\ child[c].state = "alive"
                 /\ startT[c].origin = 0
                 /\ \A j \in StopSlots : stopT[j].child # c}

\* C1: of two overlapping start requests for the id only one spawns a
\* child: never two running children that no stop was asked for
C1_SingleLiveChild == Cardinality(Untouched) <= 1

\* children spawned by the retry timer
AutoRestarts ==
  {k \in Slots : startT[k].origin # 0 /\ child[k].state \in {"alive", "exited"}}

\* C2: in a crash episode (no start or stop request after the first start)
\* at most MAX_RETRY_ATTEMPTS automatic restarts happen
C2_RestartsBounded == Cardinality(AutoRestarts) <= MAX_RETRY_ATTEMPTS

\* C3: an unexpected crash schedules exactly one retry; without a RetryInfo
\* in the table the new one gets attempts 1, with one the counter goes on
\* from its attempts (1 becomes 2)
C3_AttemptsContinue ==
  [][\A c \in Slots :
       /\ (exitH[c].pc = "retry" /\ exitH'[c].pc = "arm") =>
            /\ retryData = 0 => retryObj'[exitH'[c].obj].attempts = 1
            /\ retryData # 0 =>
                 /\ exitH'[c].obj = retryData
                 /\ retryObj'[retryData].attempts =
                      retryObj[retryData].attempts + 1
       /\ (exitH[c].pc = "arm" /\ exitH'[c].pc = "done") =>
            /\ retryData' = exitH[c].obj
            /\ retryObj'[retryData'].handle = c
            /\ {t \in Slots : retryTimer'[t] = "armed"} =
                 {t \in Slots : retryTimer[t] = "armed"} \cup {c}
            /\ retryTimer[c] = "none"]_vars

\* a second consecutive crash found the RetryInfo of the first and a timer
\* is armed for attempt 2
C3_Witness ==
  /\ retryData # 0
  /\ retryObj[retryData].attempts = 2
  /\ retryObj[retryData].handle # 0
  /\ retryTimer[retryObj[retryData].handle] = "armed"

\* C4: once a stop request has returned, every retry timer that was pending
\* when it was made is cancelled
C4_StopCancelsRetry ==
  \A j \in StopSlots :
    stopT[j].pc = "done" =>
      \A c \in stopT[j].pending : retryTimer[c] = "cleared"

\* C5: when the 5s deadline of a stop passed and the child that got SIGTERM
\* is still running, SIGKILL was sent to it exactly once
C5_ForceKillOnce ==
  \A j \in StopSlots :
    (/\ stopT[j].deadline
     /\ child[stopT[j].child].state = "alive"
     /\ child[stopT[j].child].sigterm > 0) =>
       child[stopT[j].child].sigkill = 1

\* C6: the exit of a child that a stop sent SIGTERM to never engages the
\* retry scheduler, however the child terminated
C6_NoRestartAfterStop ==
  \A c \in Slots :
    child[c].sigterm > 0 =>
      /\ exitH[c].pc \notin {"retry", "arm", "maxed"}
      /\ retryTimer[c] = "none"

\* every request has returned, every callback has run, no timer is pending
Settled ==
  /\ Quiet
  /\ \A k \in Slots : grace[k] # "armed" /\ retryTimer[k] # "armed"
  /\ \A j \in StopSlots : stopT[j].pc \in {"idle", "done"}
  /\ \A p \in Probes : probe[p].timer # "armed"

\* C7: after a start and a stop request have settled and the id is not live,
\* no HealthCheckInfo and no RetryInfo is left for it
C7_NoDanglingRecord ==
  (Settled /\ nStarts >= 1 /\ nStops >= 1 /\ runningBots = 0) =>
    (healthCheckData = 0 /\ retryData = 0)

\* C8: the status the exit listener writes is 'stopped' for exit code 0 and
\* 'error' for every other outcome, a signal (null code) included
C8_ExitStatus ==
  [][\A c \in Slots :
       (exitH[c].pc = "status" /\ exitH'[c].pc # "status") =>
          status' = IF child[c].exit = "code0" THEN "stopped" ELSE "error"]_vars

\* the exit listener of a child terminated by a signal has written 'error'
C8_Witness ==
  \E c \in Slots : /\ child[c].exit = "SIGTERM"
                   /\ exitH[c].pc = "done"
                   /\ status = "error"

\* C9: a stop request for an id that is not live returns false and changes
\* neither the status, the live table, the health and retry tables nor any
\* child (no signal)
C9_StopNotLive ==
  [][(nStops' = nStops + 1 /\ runningBots = 0) =>
       /\ stopT'[nStops + 1].pc = "done"
       /\ stopT'[nStops + 1].result = "false"
       /\ stopT'[nStops + 1].timer = "none"
       /\ UNCHANGED <<status, runningBots, child, retryData, retryObj,
                      retryTimer, healthCheckData, healthObj, probe>>]_vars

\* a stop request found the id not live, after the id had been live
C9_Witness ==
  \E j \in StopSlots : /\ stopT[j].pc = "done"
                       /\ stopT[j].child = 0
                       /\ stopT[j].result = "false"
                       /\ nStarts >= 1

\* C10: a handleHealthCheckFailure that finds MAX_CONSECUTIVE_FAILURES or
\* more consecutive failures writes 'unresponsive' (and none that finds
\* fewer does); an accepted response resets the failures to 0 and, finding
\* the status 'unresponsive', writes 'running'
C10_UnresponsiveAndBack ==
  [][/\ (cycle.pc = "flog" /\ cycle'.pc # "flog") =>
          ((cycle'.pc = "fwrite") <=>
             (healthObj[cycle.obj].consecutiveFailures >=
                MAX_CONSECUTIVE_FAILURES))
     /\ (cycle.pc = "fwrite" /\ cycle'.pc # "fwrite") =>
          status' = "unresponsive"
     /\ \A p \in Probes :
          /\ (failT[p].pc = "log" /\ failT'[p].pc # "log") =>
               ((failT'[p].pc = "write") <=>
                  (healthObj[failT[p].obj].consecutiveFailures >=
                     MAX_CONSECUTIVE_FAILURES))
          /\ (failT[p].pc = "write" /\ failT'[p].pc # "write") =>
               status' = "unresponsive"
          /\ (succT[p] # "read" /\ succT'[p] = "read") =>
               /\ healthObj[healthCheckData].healthCheckId = p
               /\ healthObj'[healthCheckData].consecutiveFailures = 0
               /\ ~healthObj'[healthCheckData].isWaitingForResponse
          /\ (succT[p] = "read" /\ succT'[p] # "read") =>
               ((succT'[p] = "write") <=> (status = "unresponsive"))
          /\ (succT[p] = "write" /\ succT'[p] # "write") =>
               status' = "running"]_vars

\* after three unanswered probes made the bot unresponsive, the response to
\* the fourth was accepted and the status is 'running' again
C10_Witness ==
  /\ nProbes = 4
  /\ succT[4] = "restored"
  /\ status = "running"
  /\ healthCheckData # 0
  /\ healthObj[healthCheckData].consecutiveFailures = 0
  /\ \A p \in 1 .. 3 : failT[p].pc = "done" \/ probe[p].child = 0

\* C11: a response whose id differs from the healthCheckId of the
\* HealthCheckInfo of the table is ignored: the record (isWaitingForResponse,
\* consecutiveFailures, timeoutHandle), the pending timeout and the status
\* stay as they are
C11_OutdatedIgnored ==
  [][\A p \in Probes :
       (/\ succT[p] \in Returned
        /\ succT'[p] # succT[p]
        /\ healthCheckData # 0
        /\ healthObj[IF healthCheckData = 0 THEN 1 ELSE healthCheckData]
             .healthCheckId # p) =>
          /\ succT'[p] = "ignored"
          /\ UNCHANGED <<status, healthCheckData, healthObj, probe>>]_vars

\* the response to an earlier probe was ignored while the record waits for
\* the response to a later one, its timeout pending and a failure counted
C11_Witness ==
  \E p \in Probes :
    /\ succT[p] = "ignored"
    /\ healthCheckData # 0
    /\ healthObj[healthCheckData].healthCheckId # p
    /\ healthObj[healthCheckData].isWaitingForResponse
    /\ healthObj[healthCheckData].consecutiveFailures > 0
    /\ healthObj[healthCheckData].timeoutHandle # 0
    /\ probe[healthObj[healthCheckData].timeoutHandle].timer = "armed"

C13_StartWhileLive ==
  [][\A k \in Slots :
       /\ (startT[k].pc = "check" /\ startT'[k].pc # "check"
           /\ runningBots # 0 /\ status # "none") =>
             /\ startT'[k] = [startT[k] EXCEPT !.pc = "warn"]
             /\ UNCHANGED <<status, runningBots, child, grace, retryVars,
                            healthVars>>
       /\ (startT[k].pc = "warn" /\ startT'[k].pc # "warn") =>
             /\ startT'[k].pc = "done"
             /\ startT'[k].result = "false"
             /\ UNCHANGED <<status, runningBots, child, grace, retryVars,
                            healthVars>>]_vars

\* a second start request found the child of the first in the live table
\* and is about to return false; that child runs and no other was spawned
C13_Witness ==
  /\ nStarts = 2
  /\ startT[2].pc = "warn"
  /\ child[2].state = "none"
  /\ runningBots = 1
  /\ child[1].state = "alive"
  /\ status = "starting"
  /\ grace[1] = "armed"

C15_StopResolves ==
  /\ [][\A j \in StopSlots :
          (stopT[j].pc # "done" /\ stopT'[j].pc = "done"
           /\ stopT'[j].child # 0) =>
             IF stopT[j].pc = "waiting"
             THEN stopT'[j].result = "true"
             ELSE /\ stopT'[j].result = "false"
                  /\ stopT[j].pc = "write"
                  /\ child[stopT[j].child].state = "alive"
                  /\ child'[stopT[j].child] = child[stopT[j].child]
                  /\ child[stopT[j].child].sigterm = 0]_vars
  /\ \A j \in StopSlots : (stopT[j].pc # "idle") ~> (stopT[j].pc = "done")

\* a stop of a live child resolved false: SIGTERM was not delivered, the
\* child still runs
C15_Witness ==
  \E j \in StopSlots :
    /\ stopT[j].pc = "done"
    /\ stopT[j].child # 0
    /\ stopT[j].result = "false"
    /\ child[stopT[j].child].state = "alive"
    /\ child[stopT[j].child].sigterm = 0

\* C16: when recovery at startup has finished, every record that was
\* 'running' is 'stopped', every other record has the status it had, and no
\* process was spawned
C16_RecoveryResets ==
  recT.pc = "done" =>
    /\ \A b \in BotIds :
         bots[b] = IF recT.allBots[b] = "running" THEN "stopped"
                   ELSE recT.allBots[b]
    /\ nStarts = 0
    /\ runningBots = 0
    /\ \A k \in Slots : child[k].state = "none"

\* recovery finished over records of which one was 'running' and is now
\* 'stopped', one was 'starting' and one 'unresponsive' and still are
C16_Witness ==
  /\ recT.pc = "done"
  /\ recT.allBots = <<"starting", "running", "unresponsive">>
  /\ bots[1] = "starting"
  /\ bots[2] = "stopped"
  /\ bots[3] = "unresponsive"

\* C17: a live bot that never answers a probe is eventually marked
\* 'unresponsive'; the health monitor sends it no signal and leaves it in
\* the live table
C17_EventuallyUnresponsive ==
  /\ <>(status = "unresponsive")
  /\ [](/\ runningBots = 1
        /\ child[1].state = "alive"
        /\ ~child[1].killed
        /\ child[1].sigterm = 0
        /\ child[1].sigkill = 0)

\* three probes went unanswered and the bot, still live, is 'unresponsive'
C17_Witness ==
  /\ status = "unresponsive"
  /\ runningBots = 1
  /\ child[1].state = "alive"
  /\ healthCheckData # 0
  /\ healthObj[healthCheckData].consecutiveFailures >= MAX_CONSECUTIVE_FAILURES
  /\ \A p \in Probes : succT[p] = "idle"

\* C18: the delay of a retry is BASE_RETRY_DELAY * 2^attempts + jitter with
\* attempts the value before the increment (0..4) and jitter in
\* [0, JitterMax); every later retry of an episode waits strictly longer
\* than every earlier one, whatever the jitters
C18_BackoffGrows ==
  /\ \A i \in DOMAIN backoff :
       /\ backoff[i].attempts = i - 1
       /\ backoff[i].attempts \in 0 .. (MAX_RETRY_ATTEMPTS - 1)
       /\ backoff[i].retryDelay - backoff[i].jitter =
            BASE_RETRY_DELAY * (2 ^ backoff[i].attempts)
       /\ backoff[i].retryDelay >= BASE_RETRY_DELAY
  /\ \A a, b \in DOMAIN backoff :
       a < b => backoff[b].retryDelay > backoff[a].retryDelay

\* five retries were scheduled, the first with the largest jitter and the
\* second with none
C18_Witness ==
  /\ Len(backoff) = MAX_RETRY_ATTEMPTS
  /\ backoff[1].jitter = JitterMax - 1
  /\ backoff[2].jitter = 0
  /\ backoff[2].retryDelay > backoff[1].retryDelay

\* C19: when a startBot call, made by a request or by the retry timer,
\* returns true, the RetryInfo of the id has been deleted; and the RetryInfo
\* is deleted only when a start has returned true
C19_RetryDeletedOnStart ==
  [][/\ \A k \in Slots :
          (startT[k].pc # "done" /\ startT'[k].pc = "done"
           /\ startT'[k].result = "true") => retryData' = 0
     /\ (retryData # 0 /\ retryData' = 0) =>
          \E k \in Slots : /\ startT[k].pc # "done"
                            /\ startT'[k].pc = "done"
                            /\ startT'[k].result = "true"]_vars

\* C20: the exit listener engages scheduleSmartRetry if and only if the exit
\* code is not 0 and the signal is not SIGTERM: exits with code 1 or by
\* SIGKILL do, exits with code 0 or by SIGTERM do not; nothing else engages it
C20_RetryIffUnexpected ==
  [][\A c \in Slots :
       /\ (exitH[c].pc = "status" /\ exitH'[c].pc # "status") =>
            ((exitH'[c].pc = "retry") <=> (child[c].exit \in {"code1", "SIGKILL"}))
       /\ (exitH[c].pc # "retry" /\ exitH'[c].pc = "retry") =>
            exitH[c].pc = "status"
       /\ (retryTimer[c] # "armed" /\ retryTimer'[c] = "armed") =>
            child[c].exit \in {"code1", "SIGKILL"}]_vars

\* a child killed by SIGKILL has its retry timer armed while the exit
\* listener of a child terminated by SIGTERM finished without one
C20_Witness ==
  \E c, d \in Slots :
    /\ child[c].exit = "SIGKILL"
    /\ retryTimer[c] = "armed"
    /\ child[d].exit = "SIGTERM"
    /\ exitH[d].pc = "done"
    /\ retryTimer[d] = "none"

\* C21: the id is removed from the live table in the same step as the event
\* that triggers the removal: the exit listener removes it when 'exit' is
\* emitted, and between the check of stopBot that the id is live and its
\* removal of the id no other callback runs
C21_RemovalSynchronous ==
  [][/\ \A c \in Slots :
          (child[c].state = "alive" /\ child'[c].state = "exited") =>
            runningBots' = 0
     /\ \A j \in StopSlots :
          (stopT[j].pc = "log") =>
            (stopT'[j].pc = "write" /\ runningBots' = 0)]_vars

\* C22: after stopBot has returned for a child, no health-check timeout armed
\* for that child fires and changes a HealthCheckInfo or starts a failure
\* handling (which writes the status)
C22_StopCancelsProbe ==
  [][\A p \in Probes :
       (/\ probe[p].timer = "armed"
        /\ probe'[p].timer = "fired"
        /\ \E j \in StopSlots : /\ stopT[j].pc = "done"
                                 /\ stopT[j].child = probe[p].child) =>
          UNCHANGED <<healthObj, failT, status>>]_vars

\* C23: a response is accepted only for the outstanding probe: one that
\* arrives when the HealthCheckInfo is not waiting for a response (its probe
\* was counted as failed, or its response was accepted before) is discarded
\* and changes neither the HealthCheckInfo nor the status
C23_LateResponseDiscarded ==
  [][\A p \in Probes :
       (/\ succT[p] \in Returned
        /\ succT'[p] # succT[p]
        /\ healthCheckData # 0
        /\ ~healthObj[IF healthCheckData = 0 THEN 1 ELSE healthCheckData]
              .isWaitingForResponse) =>
          /\ succT'[p] = "ignored"
          /\ UNCHANGED <<status, healthCheckData, healthObj, probe>>]_vars

\* health-check timeouts that are armed
ArmedProbes == {p \in Probes : probe[p].timer = "armed"}

\* C24: at most one probe is outstanding: at most one health-check timeout
\* is armed, it belongs to the probe the HealthCheckInfo waits for, and no
\* probe is sent while the HealthCheckInfo is waiting for a response
C24_OneProbeOutstanding ==
  /\ [](/\ Cardinality(ArmedProbes) <= 1
        /\ \A p \in ArmedProbes :
             /\ healthObj[probe[p].obj].isWaitingForResponse
             /\ healthObj[probe[p].obj].healthCheckId = p
             /\ healthObj[probe[p].obj].timeoutHandle = p)
  /\ [][nProbes' # nProbes =>
          /\ nProbes' = nProbes + 1
          /\ ArmedProbes = {}
          /\ (healthCheckData # 0 =>
                ~healthObj[IF healthCheckData = 0 THEN 1 ELSE healthCheckData]
                   .isWaitingForResponse)]_vars

\* the first probe timed out and the second is outstanding; its timeout
\* is the only one armed
C24_Witness ==
  /\ nProbes = 2
  /\ ArmedProbes = {2}
  /\ probe[1].timer = "fired"
  /\ cycle.pc = "idle"
  /\ healthCheckData # 0
  /\ healthObj[healthCheckData].isWaitingForResponse
  /\ healthObj[healthCheckData].consecutiveFailures = 1

\* C25: the attempts of every RetryInfo are between 0 and
\* MAX_RETRY_ATTEMPTS, and the attempts of the RetryInfo of the id never
\* decrease from one state to the next unless the RetryInfo is deleted
C25_AttemptsMonotone ==
  /\ [](\A o \in Slots : retryObj[o].attempts \in 0 .. MAX_RETRY_ATTEMPTS)
  /\ [][(retryData # 0 /\ retryData' # 0) =>
          retryObj'[IF retryData' = 0 THEN 1 ELSE retryData'].attempts >=
            retryObj[IF retryData = 0 THEN 1 ELSE retryData].attempts]_vars

\* C26: when the SIGTERM of stopBot cannot be delivered to the running child,
\* stopBot returns false instead of failing, the error is logged and the
\* 'error' listener writes the status `error`
C26_SignalFailureSurfaced ==
  /\ [][\A j \in StopSlots :
          (/\ stopT[j].pc = "write" /\ stopT'[j].pc = "done"
           /\ child'[stopT[j].child].state = "alive"
           /\ child'[stopT[j].child].sigterm = 0) =>
             /\ stopT'[j].result = "false"
             /\ errH'[stopT[j].child] = "status"]_vars
  /\ \A c \in Slots :
       (/\ errH[c] = "status"
        /\ \E j \in StopSlots : stopT[j].result = "false" /\ stopT[j].child = c)
         ~> (errH[c] = "done" /\ status = "error" /\ logs)

C26_Witness ==
  \E j \in StopSlots :
    /\ stopT[j].result = "false" /\ stopT[j].child # 0
    /\ errH[IF stopT[j].child = 0 THEN 1 ELSE stopT[j].child] = "done"
    /\ child[IF stopT[j].child = 0 THEN 1 ELSE stopT[j].child].state = "alive"
    /\ status = "error"

\* C27: the force-kill timer of a stop never fires for a child that has
\* already exited: the exit cancelled it, so that nothing is sent to the
\* handle of an exited child
C27_ForceKillCancelled ==
  [][\A j \in StopSlots :
       (stopT[j].timer = "armed" /\ stopT'[j].timer = "fired") =>
         child[stopT[j].child].state = "alive"]_vars

\* C28: the 1s timer of a start goes on to write the status `running` only
\* if, when it fires, the id is in the live table and the child of that
\* start has neither exited nor been signalled
C28_GraceOnlyIfLive ==
  [][\A c \in Slots :
       (grace[c] = "armed" /\ grace'[c] = "write") =>
         /\ runningBots # 0
         /\ child[c].state = "alive"
         /\ ~child[c].killed]_vars

\* C29: no step of handleHealthCheckFailure, at the threshold or below it,
\* signals the child, removes the id from the live table or schedules a
\* start; the only status it writes is `unresponsive`
C29_FailureOnlyMarks ==
  [][(\/ \E p \in Probes : failT'[p] # failT[p]
      \/ cycle' # cycle /\ (cycle'.pc = "flog" \/ cycle.pc \in {"flog", "fwrite"})) =>
        /\ UNCHANGED <<runningBots, child, retryVars, startVars, stopVars>>
        /\ status' # status => status' = "unresponsive"]_vars

C29_Witness ==
  /\ status = "unresponsive"
  /\ runningBots # 0
  /\ child[IF runningBots = 0 THEN 1 ELSE runningBots].state = "alive"
  /\ ~child[IF runningBots = 0 THEN 1 ELSE runningBots].killed
  /\ healthCheckData # 0
  /\ healthObj[IF healthCheckData = 0 THEN 1 ELSE healthCheckData].consecutiveFailures
       >= MAX_CONSECUTIVE_FAILURES
  /\ \E p \in Probes : failT[p].pc = "done"
  /\ retryData = 0

\* entries of the log file that hold line l
Stored(l) == {i \in DOMAIN logFile : logFile[i] = l}

\* C30: once the appends have completed, every plain non-empty line the
\* child printed is in the log file exactly once, also for lines of one
\* chunk, and a response line is passed to the health monitor and not stored
C30_EveryLineStored ==
  (\A l \in Lines : appendT[l].pc \in {"idle", "done"}) =>
    \A l \in DOMAIN stdoutLines :
      /\ stdoutLines[l] = "msg" => Cardinality(Stored(l)) = 1
      /\ stdoutLines[l] = "response" => (Stored(l) = {} /\ l \in routed)
      /\ stdoutLines[l] = "blank" => (Stored(l) = {} /\ l \notin routed)

\* C31: a line with the response marker and no id only starts one log
\* entry of level warn: it is not passed on as a response, and the
\* HealthCheckInfo of the bot, its timeout, the status, the live table and
\* the child are unchanged
C31_MalformedOnlyLogged ==
  [][\A l \in Lines :
       (/\ l > Len(stdoutLines) /\ l <= Len(stdoutLines')
        /\ stdoutLines'[l] = "malformed") =>
          /\ appendT'[l] = [pc |-> "read", logs |-> <<>>, level |-> "warn"]
          /\ l \notin routed'
          /\ UNCHANGED <<status, healthVars, runningBots, child>>]_vars

C31_Witness ==
  /\ \E l \in DOMAIN stdoutLines :
       /\ stdoutLines[l] = "malformed"
       /\ appendT[l].pc = "done" /\ appendT[l].level = "warn"
       /\ Stored(l) # {}
  /\ healthCheckData # 0
  /\ healthObj[IF healthCheckData = 0 THEN 1 ELSE healthCheckData].isWaitingForResponse
  /\ status = "running"

\* C32: once shutdown has returned, the interval timer of the health checks
\* is stopped, no health-check timeout is armed and there is no
\* HealthCheckInfo, no retry timer is armed and there is no RetryInfo, and
\* no child is running
C32_ShutdownCleansUp ==
  shutT.pc = "done" =>
    /\ ~healthCheckInterval
    /\ \A p \in Probes : probe[p].timer # "armed"
    /\ healthCheckData = 0
    /\ \A c \in Slots : retryTimer[c] # "armed"
    /\ retryData = 0
    /\ runningBots = 0
    /\ \A c \in Slots : child[c].state # "alive"

\* C33: the entry of the live table is removed only by the exit or the
\* error of the child it holds or by a stop of that child, never by the
\* listener of another child of the id (a child that fails to spawn takes
\* the entry over and removes it in its error listener)
C33_RemovedByOwnChild ==
  [][\A c \in Slots :
       (runningBots = c /\ runningBots' = 0) =>
         \/ child[c].state = "alive" /\ child'[c].state = "exited"
         \/ errH'[c] # errH[c] /\ errH'[c] = "status"
         \/ \E k \in Slots : child[k].state = "none" /\ child'[k].state = "errored"
         \/ \E j \in StopSlots : /\ stopT[j].child = c
                                   /\ stopT[j].pc = "log"
                                   /\ stopT'[j].pc = "write"]_vars

\* C34: after the one start of the id, once a stop has returned true, the
\* stopped child has exited and every callback has run, the status is
\* `stopped`
C34_StoppedStaysStopped ==
  (/\ Settled
   /\ cycle.pc = "idle"
   /\ \E j \in StopSlots : /\ stopT[j].pc = "done" /\ stopT[j].result = "true"
                            /\ child[stopT[j].child].state = "exited") =>
     status = "stopped"

\* C35: whenever no callback is suspended in an await, a status of
\* `running` or `unresponsive` implies that the id is in the live table
C35_LiveStatusHasHandle ==
  (Quiet /\ status \in {"running", "unresponsive"}) => runningBots # 0

\* C36: at most one retry timer of the id is armed
C36_OneRetryTimer == Cardinality(PendingRetries) <= 1

\* C37: when the timeout of a probe fires after the child that got the
\* probe has exited, no HealthCheckInfo changes, no handleHealthCheckFailure
\* starts and no other timeout is cleared
C37_StaleTimeoutHarmless ==
  [][\A p \in Probes :
       (/\ probe[p].timer = "armed" /\ probe'[p].timer = "fired"
        /\ child[probe[p].child].state = "exited") =>
          /\ UNCHANGED <<healthObj, healthCheckData, failT, status>>
          /\ \A q \in Probes \ {p} : probe'[q] = probe[q]]_vars

C37_Witness ==
  /\ \E p \in Probes : /\ probe[p].timer = "fired"
                        /\ child[probe[p].child].state = "exited"
                        /\ failT[p].pc = "idle"
                        /\ runningBots # 0 /\ runningBots # probe[p].child
  /\ \E q \in Probes : /\ probe[q].timer = "armed"
                        /\ probe[q].child = runningBots
                        /\ healthObj[probe[q].obj].consecutiveFailures = 0
                        /\ healthObj[probe[q].obj].isWaitingForResponse

\* C38: whenever a startBot call has returned true and the status is
\* `starting`, the status later differs from `starting`
C38_LeavesStarting ==
  \A k \in Slots :
    (startT[k].result = "true" /\ status = "starting") ~> (status # "starting")

C38_Witness ==
  /\ status = "running"
  /\ \E k \in Slots : /\ startT[k].result = "true"
                        /\ grace[k] = "done"
                        /\ child[k].state = "alive"
                        /\ runningBots = k
  /\ nStops = 0

\* C39: when recovery at startup has finished and no start was issued, no
\* record has a status that stands for a live process
C39_NoLiveStatusAfterRecovery ==
  (recT.pc = "done" /\ nStarts = 0) =>
    \A b \in BotIds : bots[b] \notin {"running", "starting", "unresponsive"}

\* C40: when the updateBotStatus calls on different records have all
\* completed, every record that was updated has the status of its call
C40_NoLostUpdate ==
  (\A b \in BotIds : updT[b].pc \in {"idle", "done"}) =>
    \A b \in BotIds : updT[b].pc = "done" => bots[b] = updT[b].status

====
